---------------------------- MODULE Spec2Model ----------------------------
(***************************************************************************)
(* Model of flood_fill.py: a flood fill over an implicit grid whose cells  *)
(* are mines or safe according to the digit sums of their coordinates.     *)
(* The region around the origin is discovered as horizontal runs of safe   *)
(* cells ("clumps", Line tuples).                                          *)
(*                                                                         *)
(* Specifications:                                                         *)
(*   Spec        one run of main()                                         *)
(*   LiveSpec    Spec with the fairness of a running interpreter           *)
(*   PairSpec    two independent runs of main() under the same THRESHOLD   *)
(*   OracleSpec  calls of _check_mine_at_position                          *)
(*   LineSpec    calls of _normalize_line / _find_safe_clumps_within_line  *)
(***************************************************************************)
EXTENDS Integers, Sequences, FiniteSets

VARIABLES
    THRESHOLD,  \* the module global THRESHOLD (flood_fill.py:21)
    main,       \* the frame of main(): pc and its local variables
    main2,      \* the frame of a second, independent run of main()
    call,       \* harness: the function called and its arguments
    ret         \* harness: what the call returned

vars == <<THRESHOLD, main, main2, call, ret>>

----------------------------------------------------------------------------
(* Bounds of the model *)

\* largest THRESHOLD the runs of main() are explored with
MaxThreshold == 7
\* the harness draws line coordinates from -MaxCoord..MaxCoord
MaxCoord == 9
\* the harness draws line widths from 0..MaxWidth
MaxWidth == 7
\* the oracle harness draws coordinates from -MaxOracleCoord..MaxOracleCoord
MaxOracleCoord == 104
\* the brute-force window is (-Window..Window) x (-Window..Window)
Window == 15
\* number of cells a boundary walk may visit before the model calls it endless
WalkLimit == 40

\* THRESHOLD as shipped (flood_fill.py:21)
ReferenceThreshold == 23

\* the thresholds main() is run with: -1 makes the origin a mine
Thresholds == {-1} \cup (0..MaxThreshold)

----------------------------------------------------------------------------
(* Line = namedtuple('Line', ('x', 'y', 'width')) *)

Line(x, y, width) == [x |-> x, y |-> y, width |-> width]

\* The element of a one-element set. {e(v) : v \in {expr}} names the value of
\* expr v, as an assignment to a local variable does.
The(S) == CHOOSE v \in S : TRUE

\* the cells [x, x+width) of a line, as <<x, y>> pairs
CellsOf(line) == {<<line.x + o, line.y>> : o \in 0..(line.width - 1)}

----------------------------------------------------------------------------
(* _get_int_digits and _check_mine_at_position *)

Abs(v) == IF v < 0 THEN -v ELSE v

RECURSIVE Pow10(_)
Pow10(ix) == IF ix = 0 THEN 1 ELSE 10 * Pow10(ix - 1)

\* floor(log10(v)) for v >= 1; the float result is exact for the magnitudes
\* the model uses
RECURSIVE FloorLog10(_)
FloorLog10(v) == IF v < 10 THEN 0 ELSE 1 + FloorLog10(v \div 10)

\* the for loop of _get_int_digits: divmod by 10**ix for ix down to 1, then
\* the last remainder
RECURSIVE DigitsFrom(_, _)
DigitsFrom(remainder, ix) ==
    IF ix = 0
    THEN <<remainder>>
    ELSE <<remainder \div Pow10(ix)>> \o DigitsFrom(remainder % Pow10(ix), ix - 1)

get_int_digits(value) ==
    LET remainder == Abs(value)
    IN  IF remainder = 0
        THEN <<remainder>>
        ELSE DigitsFrom(remainder, FloorLog10(remainder))

RECURSIVE SumSeq(_)
SumSeq(s) == IF s = <<>> THEN 0 ELSE Head(s) + SumSeq(Tail(s))

\* mutant: the digit sums of x and y are compared by their difference
check_mine_at_position_diff(x, y) ==
    LET dx == SumSeq(get_int_digits(x))
        dy == SumSeq(get_int_digits(y))
    IN  Abs(dx - dy) > THRESHOLD

\* mutant: the comparison lets the threshold itself count as a mine
check_mine_at_position_ge(x, y) ==
    LET digits == get_int_digits(x) \o get_int_digits(y)
    IN  SumSeq(digits) >= THRESHOLD

check_mine_at_position(x, y) ==
    LET digits == get_int_digits(x) \o get_int_digits(y)
    IN  SumSeq(digits) > THRESHOLD

----------------------------------------------------------------------------
(* _slice_line and _find_safe_clumps_within_line *)

\* mutant: the slice's stop is taken as its last offset
slice_line_inclusive(line, slice_obj) ==
    LET x1_offset == slice_obj.start
        x2_offset == slice_obj.stop
    IN  Line(line.x + x1_offset, line.y, x2_offset - x1_offset + 1)

slice_line(line, slice_obj) ==
    LET x1_offset == slice_obj.start
        x2_offset == slice_obj.stop
    IN  Line(line.x + x1_offset, line.y, x2_offset - x1_offset)

\* np.ma.clump_unmasked on an array of n elements whose offsets in `masked`
\* are masked: the slices of the maximal unmasked runs, in ascending order.
\* A single pass; `open` is where the run being read starts (i when none is).
RECURSIVE ClumpPass(_, _, _, _)
ClumpPass(i, open, n, masked) ==
    IF i = n
    THEN IF open < n THEN <<[start |-> open, stop |-> n]>> ELSE <<>>
    ELSE IF i \in masked
         THEN (IF open < i THEN <<[start |-> open, stop |-> i]>> ELSE <<>>)
              \o ClumpPass(i + 1, i + 1, n, masked)
         ELSE ClumpPass(i + 1, open, n, masked)

clump_unmasked(n, masked) == ClumpPass(0, 0, n, masked)

mine_offsets(line) ==
    {offset \in 0..(line.width - 1) :
        check_mine_at_position(line.x + offset, line.y)}

\* Returns [exc, clumps]. The source defines nothing for an empty array
\* (width 0): what np.ma.clump_unmasked does there is the library's business,
\* so the model reports "EmptyArray" and the caller admits both outcomes.
find_safe_clumps_within_line(line) ==
    The({[exc    |-> IF line.width = 0 THEN "EmptyArray" ELSE "none",
          clumps |-> [i \in 1..Len(slices) |-> slice_line(line, slices[i])]] :
            slices \in {clump_unmasked(line.width, mine_offsets(line))}})

----------------------------------------------------------------------------
(* _x_adjust and _normalize_line *)

\* next(x for x in count(start=x, step=step) if mine(x + step, y)):
\* [exc, x]; "NoReturn" when no mine is met within WalkLimit cells
RECURSIVE Walk(_, _, _, _)
Walk(x, y, step, fuel) ==
    IF fuel = 0
    THEN [exc |-> "NoReturn", x |-> x]
    ELSE IF check_mine_at_position(x + step, y)
         THEN [exc |-> "none", x |-> x]
         ELSE Walk(x + step, y, step, fuel - 1)

x_adjust(x, y, step) ==
    IF check_mine_at_position(x, y)
    THEN [exc |-> "AssertionError", x |-> x]
    ELSE Walk(x, y, step, WalkLimit)

\* mutant: x1 is adjusted without testing it for a mine first
normalize_x1_unguarded(x1, y) == x_adjust(x1, y, -1)

\* lines 138-140: x1 after the first if
normalize_x1(x1, y) ==
    IF ~check_mine_at_position(x1, y)
    THEN x_adjust(x1, y, -1)
    ELSE [exc |-> "none", x |-> x1]

\* mutant: x2 is left on the last safe cell (the + 1 is missing)
normalize_x2_last_safe(x2, y) ==
    IF ~check_mine_at_position(x2, y)
    THEN x_adjust(x2, y, 1)
    ELSE [exc |-> "none", x |-> x2]

\* mutant: x2 is adjusted without testing it for a mine first
normalize_x2_unguarded(x2, y) ==
    The({[exc |-> r.exc, x |-> r.x + 1] : r \in {x_adjust(x2, y, 1)}})

\* lines 142-144: x2 after the second if
normalize_x2(x2, y) ==
    IF ~check_mine_at_position(x2, y)
    THEN The({[exc |-> r.exc, x |-> r.x + 1] : r \in {x_adjust(x2, y, 1)}})
    ELSE [exc |-> "none", x |-> x2]

\* mutant: the width is measured from the argument's x, not from x1
normalize_line_old_x(line) ==
    The({IF a1.exc # "none" THEN [exc |-> a1.exc, line |-> line]
         ELSE IF a2.exc # "none" THEN [exc |-> a2.exc, line |-> line]
         ELSE [exc |-> "none", line |-> Line(a1.x, line.y, a2.x - line.x)] :
            a1 \in {normalize_x1(line.x, line.y)},
            a2 \in {normalize_x2(line.x + line.width, line.y)}})

\* Returns [exc, line]; on an exception `line` is the argument.
normalize_line(line) ==
    The({IF a1.exc # "none" THEN [exc |-> a1.exc, line |-> line]
         ELSE IF a2.exc # "none" THEN [exc |-> a2.exc, line |-> line]
         ELSE [exc |-> "none", line |-> Line(a1.x, line.y, a2.x - a1.x)] :
            a1 \in {normalize_x1(line.x, line.y)},
            a2 \in {normalize_x2(line.x + line.width, line.y)}})

----------------------------------------------------------------------------
(* _find_safe_clumps *)

\* mutant: range(-1, 1, 2), the line below is never looked at
y_offsets_above == <<-1>>

\* mutant: range(-1, 2, 1), the line itself is looked at too
y_offsets_own_row == <<-1, 0, 1>>

\* range(-1, 3, 2)
y_offsets == <<-1, 1>>

\* mutant: the parallel line is scanned as it is, without _normalize_line
scan_parallel_raw(line, y_offset) ==
    find_safe_clumps_within_line(Line(line.x, line.y + y_offset, line.width))

\* one parallel line: normalized, then scanned
scan_parallel(line, y_offset) ==
    The({IF n.exc # "none"
         THEN [exc |-> n.exc, clumps |-> <<>>]
         ELSE find_safe_clumps_within_line(n.line) :
            n \in {normalize_line(Line(line.x, line.y + y_offset, line.width))}})

\* chain.from_iterable: the clumps of the scans in turn; the first exception
\* ends the call ("EmptyArray" is kept, the caller decides on it)
RECURSIVE chain(_)
chain(scans) ==
    IF scans = <<>>
    THEN [exc |-> "none", clumps |-> <<>>]
    ELSE IF Head(scans).exc \notin {"none", "EmptyArray"}
         THEN [exc |-> Head(scans).exc, clumps |-> <<>>]
         ELSE The({[exc    |-> IF Head(scans).exc # "none"
                               THEN Head(scans).exc ELSE rest.exc,
                    clumps |-> Head(scans).clumps \o rest.clumps] :
                      rest \in {chain(Tail(scans))}})

\* Returns [exc, clumps]: the chained clumps of both parallel lines.
find_safe_clumps(line) ==
    The({chain(scans) :
            scans \in {[k \in 1..Len(y_offsets) |->
                           scan_parallel(line, y_offsets[k])]}})

Range(s) == {s[i] : i \in 1..Len(s)}

----------------------------------------------------------------------------
(* main *)

None == [x |-> 0, y |-> 0, width |-> -1]

Frame(pc, unprocessed, processed, clump, found, total) ==
    [pc                 |-> pc,
     unprocessed_clumps |-> unprocessed,
     processed_clumps   |-> processed,
     clump              |-> clump,
     found_clumps       |-> found,
     total              |-> total]

\* before line 237 runs
InitialFrame == Frame("start", {}, {}, None, {}, -1)

\* mutant: processed clumps are not removed from what was found
update_unprocessed_all(unprocessed, found, processed) ==
    unprocessed \cup found

\* mutant: the queue is replaced by what was found instead of updated
update_unprocessed_replace(unprocessed, found, processed) ==
    found \ processed

\* unprocessed_clumps.update(found_clumps - processed_clumps)
update_unprocessed(unprocessed, found, processed) ==
    unprocessed \cup (found \ processed)

RECURSIVE SumWidths(_)
SumWidths(clumps) ==
    IF clumps = {}
    THEN 0
    ELSE LET c == CHOOSE c \in clumps : TRUE
         IN  c.width + SumWidths(clumps \ {c})

\* lines 237-243: the frames main can be in when it first tests the loop
main_start(f) ==
    LET first_clump == normalize_line(Line(0, 0, 0))
    IN  IF first_clump.exc = "none"
        THEN {Frame("loop", {first_clump.line}, {}, None, {}, -1)}
        ELSE {[f EXCEPT !.pc = IF first_clump.exc = "NoReturn"
                                 THEN "hung" ELSE "raised"]}

\* lines 259-263 after find_safe_clumps returned r, or its exception
step_outcomes(f, clump, r) ==
    LET found  == Range(r.clumps)
        normal == Frame("loop",
                        update_unprocessed(f.unprocessed_clumps, found,
                                           f.processed_clumps) \ {clump},
                        f.processed_clumps \cup {clump},
                        clump, found, -1)
        raised == [f EXCEPT !.pc = "raised", !.clump = clump]
        hung   == [f EXCEPT !.pc = "hung", !.clump = clump]
    IN  CASE r.exc = "none"       -> {normal}
          [] r.exc = "EmptyArray" -> {normal, raised}
          [] r.exc = "NoReturn"   -> {hung}
          [] OTHER                -> {raised}

\* lines 251-263: one iteration of the loop that picks `clump`
main_step(f, clump) ==
    UNION {step_outcomes(f, clump, r) : r \in {find_safe_clumps(clump)}}

\* line 268, once the loop test at line 249 fails
main_finish(f) ==
    [f EXCEPT !.pc = "done", !.total = SumWidths(f.processed_clumps)]

NoCall == [op |-> "none", line |-> None]
NoRet  == [exc |-> "none", line |-> None, clumps |-> <<>>, mine |-> FALSE]

Init ==
    /\ THRESHOLD \in Thresholds
    /\ main = InitialFrame
    /\ main2 = InitialFrame
    /\ call = NoCall
    /\ ret = NoRet

Start ==
    /\ main.pc = "start"
    /\ main' \in main_start(main)
    /\ UNCHANGED <<THRESHOLD, main2, call, ret>>

Step ==
    /\ main.pc = "loop"
    /\ Cardinality(main.unprocessed_clumps) > 0
    /\ \E clump \in main.unprocessed_clumps : main' \in main_step(main, clump)
    /\ UNCHANGED <<THRESHOLD, main2, call, ret>>

Finish ==
    /\ main.pc = "loop"
    /\ Cardinality(main.unprocessed_clumps) = 0
    /\ main' = main_finish(main)
    /\ UNCHANGED <<THRESHOLD, main2, call, ret>>

Next == Start \/ Step \/ Finish

Spec == Init /\ [][Next]_vars

\* main() runs in one thread of an interpreter that keeps executing it
LiveSpec == Spec /\ WF_vars(Next)

(* Two runs of main() side by side, free to pick clumps in different orders *)

Start2 ==
    /\ main2.pc = "start"
    /\ main2' \in main_start(main2)
    /\ UNCHANGED <<THRESHOLD, main, call, ret>>

Step2 ==
    /\ main2.pc = "loop"
    /\ Cardinality(main2.unprocessed_clumps) > 0
    /\ \E clump \in main2.unprocessed_clumps : main2' \in main_step(main2, clump)
    /\ UNCHANGED <<THRESHOLD, main, call, ret>>

Finish2 ==
    /\ main2.pc = "loop"
    /\ Cardinality(main2.unprocessed_clumps) = 0
    /\ main2' = main_finish(main2)
    /\ UNCHANGED <<THRESHOLD, main, call, ret>>

PairNext == Start \/ Step \/ Finish \/ Start2 \/ Step2 \/ Finish2

PairSpec == Init /\ [][PairNext]_vars

----------------------------------------------------------------------------
(* Calls of _check_mine_at_position on chosen coordinates *)

\* the coordinates of the docstring's examples (flood_fill.py:52-53)
ExampleCoords == {23, 34, 345, 789}

OracleCoords ==
    (-MaxOracleCoord..MaxOracleCoord)
        \cup ExampleCoords \cup {-e : e \in ExampleCoords}

OracleThresholds == {0, MaxThreshold, ReferenceThreshold}

OracleInit ==
    /\ THRESHOLD \in OracleThresholds
    /\ main = InitialFrame
    /\ main2 = InitialFrame
    /\ \E x \in OracleCoords, y \in OracleCoords :
            call = [op |-> "none", line |-> Line(x, y, 0)]
    /\ ret = NoRet

CallCheckMine ==
    /\ call.op = "none"
    /\ call' = [call EXCEPT !.op = "check_mine"]
    /\ ret' = [NoRet EXCEPT
                  !.mine = check_mine_at_position(call.line.x, call.line.y)]
    /\ UNCHANGED <<THRESHOLD, main, main2>>

OracleNext == CallCheckMine

OracleSpec == OracleInit /\ [][OracleNext]_vars

----------------------------------------------------------------------------
(* Calls of _normalize_line and _find_safe_clumps_within_line on chosen lines *)

Coords == -MaxCoord..MaxCoord

LineInit ==
    /\ THRESHOLD \in Thresholds
    /\ main = InitialFrame
    /\ main2 = InitialFrame
    /\ \E x \in Coords, y \in Coords, width \in 0..MaxWidth :
            call = [op |-> "none", line |-> Line(x, y, width)]
    /\ ret = NoRet

CallNormalize ==
    /\ call.op = "none"
    /\ call' = [call EXCEPT !.op = "normalize"]
    /\ \E r \in {normalize_line(call.line)} :
            ret' = [NoRet EXCEPT !.exc = r.exc, !.line = r.line]
    /\ UNCHANGED <<THRESHOLD, main, main2>>

\* the line a call returned is normalized again
CallRenormalize ==
    /\ call.op = "normalize"
    /\ ret.exc = "none"
    /\ call' = [op |-> "renormalize", line |-> ret.line]
    /\ \E r \in {normalize_line(ret.line)} :
            ret' = [NoRet EXCEPT !.exc = r.exc, !.line = r.line]
    /\ UNCHANGED <<THRESHOLD, main, main2>>

CallScan ==
    /\ call.op = "none"
    /\ call.line.width >= 1
    /\ call' = [call EXCEPT !.op = "scan"]
    /\ \E r \in {find_safe_clumps_within_line(call.line)} :
            ret' = [NoRet EXCEPT !.exc = r.exc, !.clumps = r.clumps]
    /\ UNCHANGED <<THRESHOLD, main, main2>>

LineNext == CallNormalize \/ CallRenormalize \/ CallScan

LineSpec == LineInit /\ [][LineNext]_vars

----------------------------------------------------------------------------
(* What the claims are stated with *)

Safe(cell) == ~check_mine_at_position(cell[1], cell[2])

OriginSafe == Safe(<<0, 0>>)

WindowCells == (-Window..Window) \X (-Window..Window)

Neighbours(cell) ==
    {<<cell[1] - 1, cell[2]>>, <<cell[1] + 1, cell[2]>>,
     <<cell[1], cell[2] - 1>>, <<cell[1], cell[2] + 1>>}

\* brute force: the safe cells of the window reachable from `seen` through
\* horizontally or vertically adjacent safe cells
RECURSIVE Flood(_, _)
Flood(seen, frontier) ==
    LET new == {c \in UNION {Neighbours(f) : f \in frontier} :
                   c \in WindowCells /\ c \notin seen /\ Safe(c)}
    IN  IF new = {} THEN seen ELSE Flood(seen \cup new, new)

OriginRegion == IF OriginSafe THEN Flood({<<0, 0>>}, {<<0, 0>>}) ELSE {}

\* the region does not touch the border of the window, so the window shows
\* all of it
RegionInsideWindow ==
    \A c \in OriginRegion : Abs(c[1]) < Window /\ Abs(c[2]) < Window

CellsOfAll(clumps) == UNION {CellsOf(c) : c \in clumps}

----------------------------------------------------------------------------
\* C1: when main's loop has ended with a safe origin, the cells covered by
\* processed_clumps are exactly the safe cells reachable from (0,0) through
\* horizontally or vertically adjacent safe cells, and the printed total is
\* the number of those cells as counted by brute force over the window.
C1_TotalIsRegionSize ==
    (main.pc = "done" /\ OriginSafe /\ RegionInsideWindow) =>
        /\ CellsOfAll(main.processed_clumps) = OriginRegion
        /\ main.total = Cardinality(OriginRegion)

\* the reduced threshold 3: the run ends with 7 clumps and prints 25
C1_Witness ==
    /\ main.pc = "done"
    /\ THRESHOLD = 3
    /\ RegionInsideWindow
    /\ Cardinality(main.processed_clumps) = 7
    /\ main.total = 25

\* C2: with a safe origin every run of the loop, whichever clump is picked,
\* reaches the terminal state (loop left, unprocessed_clumps empty, total
\* printed) and never raises or hangs.
C2_Terminates ==
    /\ [](OriginSafe => <>(main.pc = "done" /\ main.unprocessed_clumps = {}))
    /\ [](OriginSafe => main.pc \notin {"raised", "hung"})

C2_Witness ==
    /\ OriginSafe
    /\ main.pc = "done"
    /\ main.unprocessed_clumps = {}
    /\ Cardinality(main.processed_clumps) >= 5

\* C3: two runs of main() under the same THRESHOLD that both end have equal
\* processed_clumps and print equal totals, whatever order each picked in.
C3_OrderIndependent ==
    (main.pc = "done" /\ main2.pc = "done") =>
        /\ main.processed_clumps = main2.processed_clumps
        /\ main.total = main2.total

\* both runs ended, and their last picks differ: the orders were different
C3_Witness ==
    /\ main.pc = "done"
    /\ main2.pc = "done"
    /\ main.clump # main2.clump
    /\ Cardinality(main.processed_clumps) >= 5

----------------------------------------------------------------------------
(* Rows, read cell by cell without the walks of the program *)

SafeAt(x, y) == ~check_mine_at_position(x, y)

\* every cell of [x1, x2) on row y is safe
AllSafe(x1, x2, y) == \A x \in x1..(x2 - 1) : SafeAt(x, y)

\* some cell of the line's span is a mine
SpanHasMine(line) ==
    \E x \in line.x..(line.x + line.width - 1) : ~SafeAt(x, line.y)

\* the line is a maximal safe run of its row: at least one cell, all safe,
\* a mine right before it and a mine right after it
MaximalRun(line) ==
    /\ line.width >= 1
    /\ AllSafe(line.x, line.x + line.width, line.y)
    /\ ~SafeAt(line.x - 1, line.y)
    /\ ~SafeAt(line.x + line.width, line.y)

\* the maximal safe run of row y that holds the safe cell (x, y)
RunAround(x, y) ==
    LET lo == CHOOSE a \in (x - WalkLimit)..x :
                  AllSafe(a, x + 1, y) /\ ~SafeAt(a - 1, y)
        hi == CHOOSE b \in x..(x + WalkLimit) :
                  AllSafe(x, b + 1, y) /\ ~SafeAt(b + 1, y)
    IN  Line(lo, y, hi - lo + 1)

\* the maximal safe runs of row y with a cell in [x1, x2)
RunsTouching(x1, x2, y) ==
    {RunAround(x, y) : x \in {c \in x1..(x2 - 1) : SafeAt(c, y)}}

----------------------------------------------------------------------------
C5_NormalizeToMaximalRun ==
    (/\ call.op = "normalize"
     /\ call.line.width >= 0
     /\ SafeAt(call.line.x, call.line.y)
     /\ ~SpanHasMine(call.line)
     /\ \E k \in 1..WalkLimit : ~SafeAt(call.line.x - k, call.line.y)
     /\ \E k \in 0..WalkLimit :
            ~SafeAt(call.line.x + call.line.width + k, call.line.y))
    =>  /\ ret.exc = "none"
        /\ ret.line.y = call.line.y
        /\ ret.line.x <= call.line.x
        /\ ret.line.x + ret.line.width >= call.line.x + call.line.width
        /\ MaximalRun(ret.line)

\* a safe line that had to grow on both sides (the seed has width 0)
C5_Witness ==
    /\ call.op = "normalize"
    /\ SafeAt(call.line.x, call.line.y)
    /\ ~SpanHasMine(call.line)
    /\ ret.exc = "none"
    /\ ret.line.x < call.line.x
    /\ ret.line.x + ret.line.width > call.line.x + call.line.width + 1

\* C6: normalizing the line a call of _normalize_line returned gives that
\* line back.
C6_NormalizeIdempotent ==
    call.op = "renormalize" => (ret.exc = "none" /\ ret.line = call.line)

\* the first call changed its argument, whose span held a mine or not
C6_Witness ==
    /\ call.op = "renormalize"
    /\ ret.exc = "none"
    /\ ret.line.width >= 3
    /\ SpanHasMine(ret.line)

\* C7 as claimed: a call of _normalize_line on a span holding a mine ends in
\* an assertion failure.
C7_Claimed_MineSpanAsserts ==
    (call.op \in {"normalize", "renormalize"} /\ SpanHasMine(call.line))
        => ret.exc = "AssertionError"

\* C7 as amended: a call of _normalize_line on a span holding a mine raises
\* nothing and returns a line; an edge whose cell (x, or x+width) is a mine
\* is returned where it was.
C7_MineSpanReturns ==
    (call.op \in {"normalize", "renormalize"} /\ SpanHasMine(call.line))
    =>  /\ ret.exc = "none"
        /\ ret.line.y = call.line.y
        /\ ~SafeAt(call.line.x, call.line.y) => ret.line.x = call.line.x
        /\ ~SafeAt(call.line.x + call.line.width, call.line.y)
              => ret.line.x + ret.line.width = call.line.x + call.line.width

\* the span starts on a mine, holds safe cells too, and the call returned
C7_Witness ==
    /\ call.op = "normalize"
    /\ ~SafeAt(call.line.x, call.line.y)
    /\ \E c \in CellsOf(call.line) : SafeAt(c[1], c[2])
    /\ ret.exc = "none"
    /\ ret.line.width > call.line.width

\* C8 as claimed: with a mine at the origin the first call of
\* _normalize_line never returns, so main never gets to its loop.
C8_Claimed_InitCallNeverReturns ==
    ~OriginSafe => main.pc \in {"start", "hung"}

\* C8 as amended: with a mine at the origin the first call of
\* _normalize_line returns Line(0, 0, 0) as it was given, and main enters
\* its loop with that line as the only clump it knows.
C8_InitCallReturnsSeed ==
    (~OriginSafe /\ main.pc # "start") =>
        /\ main.pc # "hung"
        /\ main.unprocessed_clumps \cup main.processed_clumps
              = {Line(0, 0, 0)}

C8_Witness ==
    /\ ~OriginSafe
    /\ main.pc = "loop"
    /\ main.unprocessed_clumps = {Line(0, 0, 0)}
    /\ main.processed_clumps = {}

\* the sum of the decimal digits of v >= 0, lowest digit first
RECURSIVE digitsum(_)
digitsum(v) == IF v = 0 THEN 0 ELSE (v % 10) + digitsum(v \div 10)

\* C9: _check_mine_at_position(x, y) is true iff
\* digitsum(|x|) + digitsum(|y|) > THRESHOLD; the answer is the same for -x
\* and for -y; with THRESHOLD = 23, (23, 34) is safe and (345, 789) a mine.
C9_OracleIsDigitSum ==
    call.op = "check_mine" =>
        LET x == call.line.x
            y == call.line.y
        IN  /\ ret.mine <=> (digitsum(Abs(x)) + digitsum(Abs(y)) > THRESHOLD)
            /\ ret.mine = check_mine_at_position(-x, y)
            /\ ret.mine = check_mine_at_position(x, -y)
            /\ (THRESHOLD = ReferenceThreshold /\ x = 23 /\ y = 34) => ~ret.mine
            /\ (THRESHOLD = ReferenceThreshold /\ x = 345 /\ y = 789) => ret.mine

\* the docstring's mine, asked about with a negative coordinate
C9_Witness ==
    /\ call.op = "check_mine"
    /\ THRESHOLD = ReferenceThreshold
    /\ call.line.x = -345
    /\ call.line.y = 789
    /\ ret.mine

\* C10: after an iteration on the clump c, found_clumps is exactly the set
\* of maximal safe runs of the rows c.y-1 and c.y+1 with a cell in
\* [c.x-1, c.x+c.width+1), and holds no clump of row c.y.
C10_FoundAreTouchingRuns ==
    (OriginSafe /\ main.pc \in {"loop", "done"} /\ main.clump # None) =>
        LET c == main.clump
        IN  /\ main.found_clumps
                  = RunsTouching(c.x - 1, c.x + c.width + 1, c.y - 1)
                    \cup RunsTouching(c.x - 1, c.x + c.width + 1, c.y + 1)
            /\ \A f \in main.found_clumps : f.y # c.y

\* an iteration that found a run on each side, one wider than the clump
C10_Witness ==
    /\ OriginSafe
    /\ main.pc = "loop"
    /\ main.clump # None
    /\ Cardinality(main.found_clumps) = 2
    /\ \E f \in main.found_clumps : f.width > main.clump.width
    /\ \E f \in main.found_clumps : f.width < main.clump.width

\* C11: unprocessed_clumps and processed_clumps share no clump, before and
\* after every iteration of the loop; an iteration never picks a clump that
\* is already processed and never puts a processed clump back in the queue.
C11_FrontierDiscoveredDisjoint ==
    /\ [](main.unprocessed_clumps \cap main.processed_clumps = {})
    /\ [][main'.processed_clumps # main.processed_clumps =>
            /\ main'.clump \notin main.processed_clumps
            /\ main.processed_clumps \cap main'.unprocessed_clumps = {}]_vars

\* an iteration found a clump that was processed before and left it out of
\* the queue, which still holds other clumps
C11_Witness ==
    /\ main.pc = "loop"
    /\ main.unprocessed_clumps # {}
    /\ Cardinality(main.processed_clumps) >= 2
    /\ main.found_clumps \cap main.processed_clumps # {}
    /\ main.found_clumps \cap main.unprocessed_clumps # {}

\* C12: an iteration that picks c leaves processed_clumps = the old set plus
\* c, which was not in it, and unprocessed_clumps = the old queue without c,
\* plus the clumps found in this iteration that were not processed before.
C12_IterationEffect ==
    [][(main.pc = "loop" /\ main'.pc = "loop" /\ main' # main) =>
        LET c == main'.clump
        IN  /\ c \in main.unprocessed_clumps
            /\ c \notin main.processed_clumps
            /\ main'.processed_clumps = main.processed_clumps \cup {c}
            /\ Cardinality(main'.processed_clumps)
                 = Cardinality(main.processed_clumps) + 1
            /\ main'.unprocessed_clumps
                 = (main.unprocessed_clumps \ {c})
                   \cup (main'.found_clumps \ main.processed_clumps)]_vars

\* after an iteration: the queue kept a clump it held before, gained a found
\* one, and a found clump that was already processed stayed out
C12_Witness ==
    /\ main.pc = "loop"
    /\ Cardinality(main.processed_clumps) >= 3
    /\ main.unprocessed_clumps \ main.found_clumps # {}
    /\ main.unprocessed_clumps \cap main.found_clumps # {}
    /\ main.found_clumps \cap main.processed_clumps # {}

\* two lines have a cell in common
Overlap(a, b) == CellsOf(a) \cap CellsOf(b) # {}

\* C13: with a safe origin every clump main knows, queued or processed, is a
\* maximal safe run of width >= 1; so two different clumps share no cell,
\* and the printed sum of widths counts every cell of processed_clumps once.
C13_ClumpsAreMaximalRuns ==
    OriginSafe =>
        LET known == main.unprocessed_clumps \cup main.processed_clumps
        IN  /\ \A c \in known : MaximalRun(c)
            /\ \A a \in known, b \in known : a # b => ~Overlap(a, b)
            /\ main.pc = "done" =>
                 main.total = Cardinality(CellsOfAll(main.processed_clumps))

\* a run that ended with clumps of several widths, found on both sides
C13_Witness ==
    /\ OriginSafe
    /\ main.pc = "done"
    /\ Cardinality(main.processed_clumps) >= 7
    /\ \E a \in main.processed_clumps, b \in main.processed_clumps :
          a.y = b.y + 1 /\ a.width < b.width
    /\ \E a \in main.processed_clumps, b \in main.processed_clumps :
          a.y = b.y + 1 /\ a.width > b.width
    /\ main.total > Cardinality(main.processed_clumps)

\* the block {x, x+1} x {y, y+1} has both cells of one diagonal safe and
\* both cells of the other diagonal mines
DiagonalOnly(x, y) ==
    \/ /\ SafeAt(x, y) /\ SafeAt(x + 1, y + 1)
       /\ ~SafeAt(x + 1, y) /\ ~SafeAt(x, y + 1)
    \/ /\ SafeAt(x + 1, y) /\ SafeAt(x, y + 1)
       /\ ~SafeAt(x, y) /\ ~SafeAt(x + 1, y + 1)

Neighbours8(cell) ==
    {<<cell[1] + dx, cell[2] + dy>> : dx \in {-1, 0, 1}, dy \in {-1, 0, 1}}
        \ {cell}

\* brute force: as Flood, with diagonal neighbours too
RECURSIVE Flood8(_, _)
Flood8(seen, frontier) ==
    LET new == {c \in UNION {Neighbours8(f) : f \in frontier} :
                   c \in WindowCells /\ c \notin seen /\ Safe(c)}
    IN  IF new = {} THEN seen ELSE Flood8(seen \cup new, new)

OriginRegion8 == IF OriginSafe THEN Flood8({<<0, 0>>}, {<<0, 0>>}) ELSE {}

\* C14: no 2x2 block of the window has one diagonal safe and the other
\* mined; the origin's region is the same with and without diagonal steps;
\* and what main ends with covers the region reached with diagonal steps.
C14_NoDiagonalOnlyContact ==
    /\ \A x \in -Window..Window, y \in -Window..Window : ~DiagonalOnly(x, y)
    /\ OriginRegion8 = OriginRegion
    /\ (main.pc = "done" /\ OriginSafe /\ RegionInsideWindow) =>
          CellsOfAll(main.processed_clumps) = OriginRegion8

\* main has ended on a region whose border has blocks with three safe cells
\* and one mine: diagonal neighbours that are also joined orthogonally
C14_Witness ==
    /\ main.pc = "done"
    /\ THRESHOLD >= 3
    /\ RegionInsideWindow
    /\ CellsOfAll(main.processed_clumps) = OriginRegion8
    /\ \E c \in OriginRegion8 :
          /\ <<c[1] + 1, c[2] - 1>> \in OriginRegion8
          /\ ~SafeAt(c[1] + 1, c[2])
          /\ SafeAt(c[1], c[2] - 1)

=============================================================================
